---- MODULE Spec2Model ----
(***************************************************************************)
(* Session-based authentication demo (express + express-session + MongoDB).*)
(* Two source files exist: src/app.js (signup, login, logout, members and  *)
(* the admin role with promote/demote) and src/unnamed/part_000 (the same  *)
(* application without roles, with try/catch around the store calls).      *)
(* The variable `variant` says which of the two is the running server.     *)
(*                                                                         *)
(* Strings that are validated are sequences of one-character strings, so   *)
(* that the length and format rules of the Joi schemas are computed.       *)
(* A request handler is a process: it runs atomically between two awaits,  *)
(* and handlers of different requests interleave at the awaits.            *)
(***************************************************************************)
EXTENDS Naturals, Sequences, FiniteSets, TLC

VARIABLES variant, deferredRender, users, store, req

vars == <<variant, deferredRender, users, store, req>>

(* ------------------------------ inputs -------------------------------- *)

Clients == {"c1", "c2"}

NameAl == <<"A", "l">>
NameRoot == <<"R">>
LongName == [i \in 1..256 |-> "n"]
EmailA == <<"a", "@", "x", ".", "c", "o">>
EmailRoot == <<"r", "@", "x", ".", "c", "o">>
BadEmail == <<"a", "x", ".", "c", "o">>
Secret == <<"s", "e", "c", "r", "e", "t">>
Hunter == <<"h", "u", "n", "t", "e", "r", "2">>
Short == <<"p", "w">>

Body(n, e, p) == [name |-> n, email |-> e, password |-> p]

(* request bodies: the valid ones, and one body for every validation rule *)
SignupBodies ==
    {Body(NameAl, EmailA, Secret), Body(NameAl, EmailA, Hunter),
     Body(<<>>, EmailA, Secret), Body(LongName, EmailA, Secret),
     Body(NameAl, BadEmail, Secret), Body(NameAl, EmailA, Short)}

LoginBodies ==
    {Body(<<>>, e, p) : e \in {EmailA, EmailRoot}, p \in {Secret, Hunter}}
    \cup {Body(<<>>, BadEmail, Secret), Body(<<>>, EmailA, <<>>)}

TargetEmails == {EmailA}

Null == [null |-> TRUE]
EmptyBody == [name |-> <<>>, email |-> <<>>, password |-> <<>>]

(* ------------------------- password hasher ---------------------------- *)

(* bcrypt.hash(p, 10): an opaque value that is not the plaintext.  The     *)
(* random salt is left out: no handler reads it.                           *)
Hash(p) == <<"$2b$10$">> \o p

(* bcrypt.compare(p, h) *)
Compare(p, h) == h = Hash(p)

(* ---------------------------- validation ------------------------------ *)

Count(s, ch) == Cardinality({i \in 1..Len(s) : s[i] = ch})

IndexOf(s, ch) == IF Count(s, ch) = 0 THEN 0
                  ELSE CHOOSE i \in 1..Len(s) :
                         s[i] = ch /\ \A j \in 1..(i - 1) : s[j] # ch

(* Joi.string().email(): one "@", a non-empty local part, and a domain of  *)
(* at least two non-empty segments.                                        *)
EmailOk(s) ==
    /\ Count(s, "@") = 1
    /\ LET at == IndexOf(s, "@")
           dom == SubSeq(s, at + 1, Len(s))
       IN /\ at > 1
          /\ Len(dom) >= 3
          /\ Count(dom, ".") >= 1
          /\ dom[1] # "."
          /\ dom[Len(dom)] # "."
          /\ \A i \in 1..(Len(dom) - 1) : ~(dom[i] = "." /\ dom[i + 1] = ".")

NameMax == 255
PasswordMin == 6
FieldMax == 255

(* schema.validate(req.body) of signupPost: the message of the first       *)
(* failing key in schema order, "" when the body is valid.                 *)
SignupError(v, b) ==
    IF b.name = <<>> THEN "\"name\" is not allowed to be empty"
    ELSE IF Len(b.name) > NameMax
      THEN "\"name\" length must be less than or equal to 255 characters long"
    ELSE IF b.email = <<>> THEN "\"email\" is not allowed to be empty"
    ELSE IF ~EmailOk(b.email) THEN "\"email\" must be a valid email"
    ELSE IF v = "part" /\ Len(b.email) > FieldMax
      THEN "\"email\" length must be less than or equal to 255 characters long"
    ELSE IF b.password = <<>> THEN "\"password\" is not allowed to be empty"
    ELSE IF Len(b.password) < PasswordMin
      THEN "\"password\" length must be at least 6 characters long"
    ELSE IF v = "part" /\ Len(b.password) > FieldMax
      THEN "\"password\" length must be less than or equal to 255 characters long"
    ELSE ""

(* schema.validate(req.body) of loginPost *)
LoginError(b) ==
    IF b.email = <<>> THEN "\"email\" is not allowed to be empty"
    ELSE IF ~EmailOk(b.email) THEN "\"email\" must be a valid email"
    ELSE IF b.password = <<>> THEN "\"password\" is not allowed to be empty"
    ELSE ""

(* --------------------------- credential store ------------------------- *)

(* users.findOne({ email }): the first document with that email, or null  *)
FindOne(us, e) ==
    IF \E i \in 1..Len(us) : us[i].email = e
    THEN us[CHOOSE i \in 1..Len(us) :
              us[i].email = e /\ \A j \in 1..(i - 1) : us[j].email # e]
    ELSE Null

(* an update that removes the documents with that email *)
UpdateOneDrop(us, e, role) == SelectSeq(us, LAMBDA u : u.email # e)

(* updateOne({ email }, { $set: { user_type } }): the first match only     *)
UpdateOne(us, e, role) ==
    IF \E i \in 1..Len(us) : us[i].email = e
    THEN LET k == CHOOSE i \in 1..Len(us) :
                    us[i].email = e /\ \A j \in 1..(i - 1) : us[j].email # e
         IN [us EXCEPT ![k].user_type = role]
    ELSE us

(* --------------------------- responses -------------------------------- *)

NoResp == [status |-> 0, kind |-> "none", target |-> "", message |-> ""]
Render(st, view, msg) == [status |-> st, kind |-> "render", target |-> view, message |-> msg]
Send(st, text) == [status |-> st, kind |-> "send", target |-> "", message |-> text]
Redirect(url) == [status |-> 302, kind |-> "redirect", target |-> url, message |-> ""]

InvalidMsg == "Invalid email/password combination"

(* ------------------------------ state --------------------------------- *)

Variants == {"app", "part"}

(* the snapshot with the literal role of signupPost instead of the record's *)
IdentityRoleUser(v, u) ==
    [name |-> u.name, email |-> u.email,
     user_type |-> IF v = "app" THEN "user" ELSE "undefined"]

(* the identity snapshot a handler writes to req.session.user *)
Identity(v, u) ==
    IF v = "app"
    THEN [name |-> u.name, email |-> u.email, user_type |-> u.user_type]
    ELSE [name |-> u.name, email |-> u.email, user_type |-> "undefined"]

(* a document of the users collection that exists before the server starts *)
RootUser(v) ==
    [name |-> NameRoot, email |-> EmailRoot, password |-> Hash(Secret),
     user_type |-> IF v = "app" THEN "admin" ELSE "undefined"]

(* The request of a client: the position of its handler (pc), the route,  *)
(* the validated body, the document a store call returned (user), and the  *)
(* response.  A client sends one request at a time.                        *)
Idle == [pc |-> "idle", path |-> "", body |-> EmptyBody, user |-> Null,
         resp |-> NoResp, outcome |-> "none"]

NewReq(p, b) == [Idle EXCEPT !.pc = "run", !.path = p, !.body = b]

Free(c) == req[c].pc \in {"idle", "done"}

(* the handler has sent the response rs and returned; what stays of the    *)
(* request is what its client saw                                          *)
Done(q, rs) == [Idle EXCEPT !.pc = "done", !.path = q.path, !.resp = rs,
                            !.outcome = "ok"]

(* the handler's promise was rejected with the error `err` *)
Threw(q, rs, err) == [Done(q, rs) EXCEPT !.outcome = err]

(* req.session.user = id followed by the response: express-session's      *)
(* res.end hook writes the session to the store when it was modified.     *)
(* req.session is what the store held for the client's cookie when the    *)
(* request came in; no session expires while its request is being served. *)
Save(st, c, id) == IF id # st[c] THEN [st EXCEPT ![c] = id] ELSE st

(* One administrator is provisioned in the database: no handler creates   *)
(* the first one.  The view engine's callback timing only shows in app.js. *)
Init ==
    /\ variant \in Variants
    /\ deferredRender \in IF variant = "app" THEN BOOLEAN ELSE {FALSE}
    /\ users = <<RootUser(variant)>>
    /\ store = [c \in Clients |-> Null]
    /\ req = [c \in Clients |-> Idle]

Step(c, q) == req' = [req EXCEPT ![c] = q]

Fixed == UNCHANGED <<variant, deferredRender>>

(* ------------------------------ gates --------------------------------- *)

(* isLoggedIn that lets every request pass *)
isLoggedInAlways(sess) == TRUE

(* isLoggedIn: next iff req.session.user is set, else redirect('/login')  *)
isLoggedIn(sess) == sess # Null

(* isAdmin without the comparison of user_type *)
isAdminAnySession(sess) == sess # Null

(* isAdmin: next iff the session holds role admin, else the 403 view       *)
isAdmin(sess) == sess # Null /\ sess.user_type = "admin"

Forbidden == Render(403, "403", "")

(* the chain without isAdmin, as in front of /members *)
AdminGateLoginOnly(sess) ==
    IF ~isLoggedIn(sess) THEN Redirect("/login") ELSE NoResp

(* the chain isLoggedIn, isAdmin in front of /admin, /promote, /demote:    *)
(* NoResp when the handler is reached, else the response of the gate       *)
AdminGate(sess) ==
    IF ~isLoggedIn(sess) THEN Redirect("/login")
    ELSE IF ~isAdmin(sess) THEN Forbidden
    ELSE NoResp

(* the routes app.get/app.post register in run() *)
Routes(v) ==
    IF v = "app"
    THEN {"GET /", "GET /signup", "POST /signup", "GET /login", "POST /login",
          "GET /logout", "GET /members", "GET /admin", "POST /promote",
          "POST /demote"}
    ELSE {"GET /", "POST /", "GET /signup", "POST /signup", "GET /login",
          "POST /login", "GET /logout", "GET /members"}

Paths == Routes("app") \cup Routes("part") \cup {"GET /nope"}

(* ---------------------------- page handlers --------------------------- *)

home(c) ==
    /\ Free(c)
    /\ LET q == NewReq("GET /", EmptyBody)
       IN Step(c, Done(q, IF store[c] # Null
                          THEN Render(200, "home", "Welcome")
                          ELSE Render(200, "home", "Please sign up or log in to continue.")))
    /\ UNCHANGED <<users, store>> /\ Fixed

homePost(c) ==
    /\ Free(c) /\ variant = "part"
    /\ Step(c, Done(NewReq("POST /", EmptyBody), Send(200, "Received your POST request!")))
    /\ UNCHANGED <<users, store>> /\ Fixed

signup(c) ==
    /\ Free(c)
    /\ Step(c, Done(NewReq("GET /signup", EmptyBody), Render(200, "signup", "")))
    /\ UNCHANGED <<users, store>> /\ Fixed

login(c) ==
    /\ Free(c)
    /\ Step(c, Done(NewReq("GET /login", EmptyBody), Render(200, "login", "")))
    /\ UNCHANGED <<users, store>> /\ Fixed

(* GET /members: isLoggedIn in front of members in app.js, the check       *)
(* inside members in the other file                                        *)
members(c) ==
    /\ Free(c)
    /\ LET q == NewReq("GET /members", EmptyBody)
       IN Step(c, IF variant = "app" /\ ~isLoggedIn(store[c])
                  THEN Done(q, Redirect("/login"))
                  ELSE IF store[c] = Null THEN Done(q, Redirect("/"))
                  ELSE Done(q, Render(200, "members", "")))
    /\ UNCHANGED <<users, store>> /\ Fixed

error404(c) ==
    /\ Free(c)
    /\ \E p \in Paths \ Routes(variant) :
         Step(c, Done(NewReq(p, EmptyBody),
                      IF variant = "app" THEN Render(404, "404", "")
                      ELSE Send(404, "Page not found - 404")))
    /\ UNCHANGED <<users, store>> /\ Fixed

(* ------------------------------ signup -------------------------------- *)

(* newUser with value.password in place of hashedPassword *)
NewUserPlain(v, b, hashed) ==
    [name |-> b.name, email |-> b.email, password |-> b.password,
     user_type |-> IF v = "app" THEN "user" ELSE "undefined"]

(* the document signupPost inserts *)
NewUser(v, b, hashed) ==
    [name |-> b.name, email |-> b.email, password |-> hashed,
     user_type |-> IF v = "app" THEN "user" ELSE "undefined"]

DuplicateResp == Send(400, "Email already exists")

(* POST /signup up to the first await: validation *)
signupPost(c) ==
    /\ Free(c)
    /\ \E b \in SignupBodies :
         LET q == NewReq("POST /signup", b)
         IN Step(c, IF SignupError(variant, b) # ""
                    THEN Done(q, Send(400, SignupError(variant, b)))
                    ELSE [q EXCEPT !.pc = "findOne"])
    /\ UNCHANGED <<users, store>> /\ Fixed

(* signupPost without the existingUser check *)
signupFindOneNoCheck(c) ==
    /\ req[c].pc = "findOne" /\ req[c].path = "POST /signup"
    /\ Step(c, [req[c] EXCEPT !.pc = "insertOne",
                              !.user = NewUser(variant, req[c].body,
                                               Hash(req[c].body.password))])
    /\ UNCHANGED <<users, store>> /\ Fixed

(* await users.findOne({ email }) and the duplicate check; then           *)
(* await bcrypt.hash(value.password, 10), from which newUser is built      *)
signupFindOne(c) ==
    /\ req[c].pc = "findOne" /\ req[c].path = "POST /signup"
    /\ Step(c, IF FindOne(users, req[c].body.email) # Null
               THEN Done(req[c], DuplicateResp)
               ELSE [req[c] EXCEPT !.pc = "insertOne",
                                   !.user = NewUser(variant, req[c].body,
                                                    Hash(req[c].body.password))])
    /\ UNCHANGED <<users, store>> /\ Fixed

(* signupPost that goes on to the session without inserting *)
signupInsertSkip(c) ==
    /\ req[c].pc = "insertOne"
    /\ Step(c, [req[c] EXCEPT !.pc = "session"])
    /\ UNCHANGED <<users, store>> /\ Fixed

(* await users.insertOne(newUser): the collection has no unique index *)
signupInsert(c) ==
    /\ req[c].pc = "insertOne"
    /\ users' = Append(users, req[c].user)
    /\ Step(c, [req[c] EXCEPT !.pc = "session"])
    /\ UNCHANGED store /\ Fixed

(* req.session.user = {...}; res.redirect('/members') *)
signupSession(c) ==
    /\ req[c].pc = "session"
    /\ LET q == req[c]
           id == IF variant = "app" THEN Identity(variant, q.user)
                 ELSE Identity(variant, q.body)
       IN /\ Step(c, Done(q, Redirect("/members")))
          /\ store' = Save(store, c, id)
    /\ UNCHANGED users /\ Fixed

(* the error a rejected call of the MongoDB driver throws *)
StoreError == "MongoError"

(* What becomes of a request whose handler throws outside any try/catch,   *)
(* as every handler of app.js does: a router that forwards the rejected    *)
(* promise answers with its default 500 page; a router that does not       *)
(* leaves the rejection unhandled and the request without response.        *)
Uncaught(d, q, err) ==
    Threw(q, IF d THEN Send(500, "Internal Server Error") ELSE NoResp, err)

(* users.findOne or users.insertOne of signupPost throws: the catch block  *)
(* of part_000 answers 500 'Error signing up'; app.js has no catch         *)
signupFails(c) ==
    /\ req[c].path = "POST /signup" /\ req[c].pc \in {"findOne", "insertOne"}
    /\ Step(c, IF variant = "part"
               THEN Done(req[c], Send(500, "Error signing up"))
               ELSE Uncaught(deferredRender, req[c], StoreError))
    /\ UNCHANGED <<users, store>> /\ Fixed

(* ------------------------------- login -------------------------------- *)

LoginFailed == Render(200, "login", InvalidMsg)

(* loginPost of client c from the result of findOne (q.user) to the end   *)
(* of the handler: the request record and the session store it leaves.     *)
(* In app.js the failure branch renders and does not return.  With a view  *)
(* engine callback that runs inside res.render (d = FALSE) the response is *)
(* already sent when the handler goes on, so the later redirect throws and *)
(* the session write stays in memory; with a callback deferred to a later  *)
(* tick (d = TRUE) the handler goes on first: the redirect is the response *)
(* or, when user is null, the router answers the TypeError, and `saved`    *)
(* says whether the session write reached the store.                       *)
loginResult(v, d, saved, c, q, st) ==
    LET match == q.user # Null /\ Compare(q.body.password, q.user.password)
        id == Identity(v, q.user)
    IN
    IF match
    THEN [q |-> Done(q, Redirect("/")), store |-> Save(st, c, id)]
    ELSE IF v = "part"
    THEN [q |-> Done(q, LoginFailed), store |-> st]
    ELSE IF q.user = Null
    THEN [q |-> Threw(q, IF d THEN Send(500, "Internal Server Error") ELSE LoginFailed,
                      "TypeError"),
          store |-> st]
    ELSE IF d
    THEN [q |-> Threw(q, Redirect("/"), "ERR_HTTP_HEADERS_SENT"),
          store |-> IF saved THEN Save(st, c, id) ELSE st]
    ELSE [q |-> Threw(q, LoginFailed, "ERR_HTTP_HEADERS_SENT"), store |-> st]

(* POST /login up to the first await: validation *)
loginPost(c) ==
    /\ Free(c)
    /\ \E b \in LoginBodies :
         LET q == NewReq("POST /login", b)
         IN Step(c, IF LoginError(b) # ""
                    THEN Done(q, Send(400, LoginError(b)))
                    ELSE [q EXCEPT !.pc = "findOne"])
    /\ UNCHANGED <<users, store>> /\ Fixed

(* await users.findOne({ email }); with no match the handler ends here *)
loginFindOne(c) ==
    /\ req[c].pc = "findOne" /\ req[c].path = "POST /login"
    /\ LET q == [req[c] EXCEPT !.user = FindOne(users, req[c].body.email)]
       IN IF q.user # Null
          THEN Step(c, [q EXCEPT !.pc = "compare"]) /\ UNCHANGED store
          ELSE LET res == loginResult(variant, deferredRender, FALSE, c, q, store)
               IN Step(c, res.q) /\ store' = res.store
    /\ UNCHANGED users /\ Fixed

(* await bcrypt.compare(value.password, user.password) and what follows *)
loginCompare(c) ==
    /\ req[c].pc = "compare"
    /\ \E saved \in BOOLEAN :
         LET res == loginResult(variant, deferredRender, saved, c, req[c], store)
         IN Step(c, res.q) /\ store' = res.store
    /\ UNCHANGED users /\ Fixed

(* users.findOne of loginPost throws: the catch block of part_000 renders  *)
(* the login view with status 500; app.js has no catch                     *)
loginFails(c) ==
    /\ req[c].path = "POST /login" /\ req[c].pc = "findOne"
    /\ Step(c, IF variant = "part"
               THEN Done(req[c], Render(500, "login", "Error logging in"))
               ELSE Uncaught(deferredRender, req[c], StoreError))
    /\ UNCHANGED <<users, store>> /\ Fixed

(* ------------------------------- logout ------------------------------- *)

logout(c) ==
    /\ Free(c)
    /\ Step(c, [NewReq("GET /logout", EmptyBody) EXCEPT !.pc = "destroy"])
    /\ UNCHANGED <<users, store>> /\ Fixed

(* logout that redirects and leaves the store entry *)
logoutDestroyKeep(c) ==
    /\ req[c].pc = "destroy"
    /\ Step(c, Done(req[c], Redirect("/")))
    /\ UNCHANGED <<users, store>> /\ Fixed

(* req.session.destroy(callback): the store entry is removed, then the     *)
(* callback redirects                                                      *)
logoutDestroy(c) ==
    /\ req[c].pc = "destroy"
    /\ store' = [store EXCEPT ![c] = Null]
    /\ Step(c, Done(req[c], Redirect("/")))
    /\ UNCHANGED users /\ Fixed

(* the session store evicts a session whose maxAge has passed *)
expire(c) ==
    /\ store[c] # Null /\ Free(c)
    /\ store' = [store EXCEPT ![c] = Null]
    /\ UNCHANGED <<users, req>> /\ Fixed

(* ------------------------------- admin -------------------------------- *)

(* a request to a route behind isLoggedIn, isAdmin: the gates, then the    *)
(* handler up to its await                                                 *)
Gated(c, p, b, pc) ==
    /\ Free(c) /\ variant = "app"
    /\ LET q == NewReq(p, b)
       IN Step(c, IF AdminGate(store[c]) # NoResp THEN Done(q, AdminGate(store[c]))
                  ELSE [q EXCEPT !.pc = pc])
    /\ UNCHANGED <<users, store>> /\ Fixed

adminGet(c) == Gated(c, "GET /admin", EmptyBody, "find")

(* await users.find().toArray(); res.render('admin', ...) *)
admin(c) ==
    /\ req[c].pc = "find"
    /\ Step(c, Done(req[c], Render(200, "admin", "")))
    /\ UNCHANGED <<users, store>> /\ Fixed

promotePost(c) ==
    \E e \in TargetEmails :
       Gated(c, "POST /promote", [EmptyBody EXCEPT !.email = e], "updateOne")

demotePost(c) ==
    \E e \in TargetEmails :
       Gated(c, "POST /demote", [EmptyBody EXCEPT !.email = e], "updateOne")

(* promote that also rewrites the role in the sessions of the target *)
promoteRefresh(c) ==
    /\ req[c].pc = "updateOne" /\ req[c].path = "POST /promote"
    /\ users' = UpdateOne(users, req[c].body.email, "admin")
    /\ store' = [k \in Clients |->
                   IF store[k] # Null /\ store[k].email = req[c].body.email
                   THEN [store[k] EXCEPT !.user_type = "admin"] ELSE store[k]]
    /\ Step(c, Done(req[c], Redirect("/admin")))
    /\ Fixed

(* await updateOne({ email }, { $set: { user_type: 'admin' } }); redirect *)
promote(c) ==
    /\ req[c].pc = "updateOne" /\ req[c].path = "POST /promote"
    /\ users' = UpdateOne(users, req[c].body.email, "admin")
    /\ Step(c, Done(req[c], Redirect("/admin")))
    /\ UNCHANGED store /\ Fixed

(* await updateOne({ email }, { $set: { user_type: 'user' } }); redirect *)
demote(c) ==
    /\ req[c].pc = "updateOne" /\ req[c].path = "POST /demote"
    /\ users' = UpdateOne(users, req[c].body.email, "user")
    /\ Step(c, Done(req[c], Redirect("/admin")))
    /\ UNCHANGED store /\ Fixed

(* --------------------------- specification ---------------------------- *)

Next ==
    \/ \E c \in Clients : home(c)
    \/ \E c \in Clients : homePost(c)
    \/ \E c \in Clients : signup(c)
    \/ \E c \in Clients : login(c)
    \/ \E c \in Clients : members(c)
    \/ \E c \in Clients : error404(c)
    \/ \E c \in Clients : signupPost(c)
    \/ \E c \in Clients : signupFindOne(c)
    \/ \E c \in Clients : signupInsert(c)
    \/ \E c \in Clients : signupSession(c)
    \/ \E c \in Clients : signupFails(c)
    \/ \E c \in Clients : loginPost(c)
    \/ \E c \in Clients : loginFindOne(c)
    \/ \E c \in Clients : loginCompare(c)
    \/ \E c \in Clients : loginFails(c)
    \/ \E c \in Clients : logout(c)
    \/ \E c \in Clients : logoutDestroy(c)
    \/ \E c \in Clients : expire(c)
    \/ \E c \in Clients : adminGet(c)
    \/ \E c \in Clients : admin(c)
    \/ \E c \in Clients : promotePost(c)
    \/ \E c \in Clients : demotePost(c)
    \/ \E c \in Clients : promote(c)
    \/ \E c \in Clients : demote(c)

Spec == Init /\ [][Next]_vars

(* ------------------------------ claims -------------------------------- *)

AdminPaths == {"GET /admin", "POST /promote", "POST /demote"}
SetRolePaths == {"POST /promote", "POST /demote"}

(* client c sends a new request in this step *)
Starts(c) == Free(c) /\ req'[c] # req[c]

(* the handler of c's request takes a step *)
Moves(c) == req'[c] # req[c]

(* the record loginPost holds, or is about to read, for the given email,  *)
(* and whether the given password verifies against it                      *)
Looked(c) == IF req[c].pc = "compare" THEN req[c].user
             ELSE FindOne(users, req[c].body.email)

Verifies(c) == Looked(c) # Null /\ Compare(req[c].body.password, Looked(c).password)

(* the handler of c's request takes a step in which its store call returns *)
Returns(c) == Moves(c) /\ ~signupFails(c) /\ ~loginFails(c)

LoginRuns(c) == req[c].path = "POST /login" /\ req[c].pc \in {"findOne", "compare"}

(* C1: POST /login establishes or overwrites the session only when a      *)
(* record with the given email exists and the password verifies against   *)
(* its hash; a failed login leaves the session store as it was.           *)
C1_LoginOnlyWhenVerified ==
    [][\A c \in Clients :
         (LoginRuns(c) /\ Moves(c)) =>
            /\ (store'[c] # store[c] => Verifies(c))
            /\ (~Verifies(c) => store' = store)]_vars

(* C2: whatever the interleaving of two POST /signup requests with the    *)
(* same email, at most one passes the duplicate check and the users       *)
(* collection never holds two records with one email.                     *)
C2_UniqueEmail ==
    /\ \A i, j \in 1..Len(users) : i # j => users[i].email # users[j].email
    /\ \A c, k \in Clients :
         (c # k /\ req[c].pc = "session" /\ req[k].pc = "session")
            => req[c].body.email # req[k].body.email

(* C3: a login with a wrong password for a registered email and a login   *)
(* with an unregistered email, run from the same state, give the same     *)
(* response, the same session store and the same handler outcome.         *)
C3_SameFailureSurface ==
    [][\A c \in Clients :
         (req[c].pc = "compare" /\ ~Verifies(c) /\ Moves(c)) =>
            \A e \in {EmailA, EmailRoot}, p \in {Secret, Hunter} :
               FindOne(users, e) = Null =>
                  LET other == [req[c] EXCEPT !.user = Null,
                                              !.body = Body(<<>>, e, p)]
                      alt == loginResult(variant, deferredRender, FALSE, c, other, store)
                  IN /\ alt.q.resp = req'[c].resp
                     /\ alt.q.outcome = req'[c].outcome
                     /\ alt.store = store']_vars

(* C4: in app.js the chain in front of /admin, /promote and /demote      *)
(* denies a session with role user, admits a session with role admin and  *)
(* denies a request without session; GET /members shows the members page  *)
(* exactly to the requests that have a session.                           *)
C4_Gates ==
    [][\A c \in Clients :
         Starts(c) =>
           /\ (variant = "app" /\ req'[c].path \in AdminPaths) =>
                /\ (store[c] # Null /\ store[c].user_type = "user")
                      => (req'[c].pc = "done" /\ req'[c].resp.status = 403)
                /\ (store[c] # Null /\ store[c].user_type = "admin")
                      => req'[c].pc \in {"find", "updateOne"}
                /\ store[c] = Null
                      => (req'[c].pc = "done" /\ req'[c].resp.kind = "redirect")
           /\ req'[c].path = "GET /members" =>
                /\ req'[c].pc = "done"
                /\ (req'[c].resp.target = "members") <=> (store[c] # Null)]_vars

(* a user session was refused /admin while an admin session was admitted *)
C4_Witness ==
    \E c, k \in Clients :
       /\ req[c].path = "GET /admin" /\ req[c].resp.status = 403
       /\ store[c] # Null /\ store[c].user_type = "user"
       /\ req[k].path = "GET /admin" /\ req[k].pc = "find"

(* C5: a promote or demote request without session, or with a session    *)
(* whose role is not admin, is answered by a gate (redirect to /login or  *)
(* the 403 view) and changes no user record; the handler body only runs   *)
(* for a session with role admin.                                         *)
C5_DeniedSetRole ==
    [][\A c \in Clients :
         /\ (variant = "app" /\ Starts(c) /\ req'[c].path \in SetRolePaths
               /\ (store[c] = Null \/ store[c].user_type # "admin"))
              => /\ req'[c].pc = "done"
                 /\ req'[c].resp.status = IF store[c] = Null THEN 302 ELSE 403
                 /\ req'[c].resp.target = IF store[c] = Null THEN "/login" ELSE "403"
                 /\ users' = users
         /\ req'[c].pc = "updateOne"
              => (store'[c] # Null /\ store'[c].user_type = "admin")]_vars

(* a promote request of a session with role user was answered with 403 *)
C5_Witness ==
    \E c \in Clients :
       /\ req[c].path = "POST /promote" /\ req[c].pc = "done"
       /\ req[c].resp.status = 403
       /\ store[c] # Null /\ store[c].user_type = "user"

(* C6: no step of a promote or demote request changes any session: the   *)
(* name, email and role of every session in the store are the same after *)
(* the role change as before.                                             *)
C6_SessionsKeepSnapshot ==
    [][\A c \in Clients :
         (Moves(c) /\ req'[c].path \in SetRolePaths) => store' = store]_vars

(* the target holds a session with role user after its record was         *)
(* promoted by a completed promote request                                *)
C6_Witness ==
    \E c, k \in Clients :
       /\ store[c] # Null /\ store[c].email = EmailA /\ store[c].user_type = "user"
       /\ FindOne(users, EmailA) # Null
       /\ FindOne(users, EmailA).user_type = "admin"
       /\ req[k].path = "POST /promote" /\ req[k].pc = "done"
       /\ req[k].resp.target = "/admin"

(* C7: in app.js promote leaves the target's record with role admin and   *)
(* demote with role user, and a login whose password verifies, with no    *)
(* role change since its lookup, establishes a session with the role of   *)
(* the record.                                                            *)
C7_FreshLoginTakesRole ==
    [][\A c \in Clients :
         variant = "app" =>
           /\ (req[c].pc = "updateOne" /\ Moves(c)
                 /\ FindOne(users, req[c].body.email) # Null)
                => FindOne(users', req[c].body.email).user_type =
                     (IF req[c].path = "POST /promote" THEN "admin" ELSE "user")
           /\ (req[c].pc = "compare" /\ Moves(c) /\ Verifies(c)
                 /\ req[c].user = FindOne(users, req[c].body.email))
                => /\ store'[c] # Null
                   /\ store'[c].email = req[c].body.email
                   /\ store'[c].user_type =
                        FindOne(users, req[c].body.email).user_type]_vars

(* the promoted account has logged in and holds a session with role admin *)
C7_Witness ==
    \E c \in Clients :
       /\ req[c].path = "POST /login" /\ req[c].pc = "done"
       /\ req[c].resp.target = "/"
       /\ store[c] # Null /\ store[c].email = EmailA /\ store[c].user_type = "admin"

(* C8: a POST /signup with a valid body and an email that findOne does   *)
(* not find succeeds, and a POST /login with the same email and password  *)
(* then succeeds and establishes the identity the signup established      *)
(* (the role compared when no role change came between).                  *)
C8_RegisterThenLogin ==
    [][\A c \in Clients :
         /\ (req[c].path = "POST /signup" /\ req[c].pc = "findOne" /\ Returns(c)
               /\ FindOne(users, req[c].body.email) = Null)
              => req'[c].pc = "insertOne"
         /\ (req[c].pc = "session" /\ Moves(c)) =>
              LET b == req[c].body
                  found == FindOne(users', b.email)
                  again == [NewReq("POST /login", Body(<<>>, b.email, b.password))
                              EXCEPT !.user = found]
                  res == loginResult(variant, deferredRender, FALSE, c, again, store')
              IN /\ req'[c].resp.target = "/members"
                 /\ res.q.resp.target = "/"
                 /\ res.q.outcome = "ok"
                 /\ res.store[c].name = store'[c].name
                 /\ res.store[c].email = store'[c].email
                 /\ (found.user_type = req[c].user.user_type
                       => res.store[c] = store'[c])]_vars

(* C9: in app.js a successful signup appends exactly one document, with   *)
(* the name and email of the body, role user and a password field that is *)
(* the hash and not the plaintext, while the session store is still       *)
(* untouched; the later step writes a session whose name, email and role  *)
(* are those of the inserted document and answers with the redirect.      *)
C9_RegisterEffect ==
    [][\A c \in Clients :
         variant = "app" =>
           /\ (req[c].pc = "insertOne" /\ Returns(c)) =>
                /\ Len(users') = Len(users) + 1
                /\ SubSeq(users', 1, Len(users)) = users
                /\ LET rec == users'[Len(users')]
                   IN /\ rec.name = req[c].body.name
                      /\ rec.email = req[c].body.email
                      /\ rec.user_type = "user"
                      /\ rec.password # req[c].body.password
                      /\ rec.password = <<"$2b$10$">> \o req[c].body.password
                      /\ req'[c].user = rec
                /\ store' = store
                /\ req'[c].pc = "session"
           /\ (req[c].pc = "session" /\ Moves(c)) =>
                /\ users' = users
                /\ \E i \in 1..Len(users) :
                      /\ users[i].email = req[c].user.email
                      /\ users[i].name = req[c].user.name
                      /\ users[i].password = req[c].user.password
                /\ store'[c] = [name |-> req[c].user.name,
                                email |-> req[c].user.email,
                                user_type |-> req[c].user.user_type]
                /\ \A k \in Clients \ {c} : store'[k] = store[k]
                /\ req'[c].pc = "done" /\ req'[c].resp.target = "/members"]_vars

(* a signup has been answered with the redirect and its client holds the  *)
(* session of the inserted record                                         *)
C9_Witness ==
    \E c \in Clients :
       /\ variant = "app"
       /\ req[c].path = "POST /signup" /\ req[c].resp.target = "/members"
       /\ store[c] # Null /\ store[c].email = EmailA /\ store[c].user_type = "user"
       /\ \E i \in 1..Len(users) :
             users[i].email = EmailA /\ users[i].password # Secret
                                     /\ users[i].password # Hunter

(* C10: a signup that fails validation, or whose email findOne finds,     *)
(* inserts nothing, changes no record and no session; a body that passes  *)
(* validation meets the constraints; the duplicate is answered with       *)
(* status 400 and 'Email already exists'.                                 *)
C10_FailedRegister ==
    [][\A c \in Clients :
         /\ (Starts(c) /\ req'[c].path = "POST /signup") =>
              /\ users' = users /\ store' = store
              /\ req'[c].pc = "done" => req'[c].resp.status = 400
              /\ req'[c].pc # "done" =>
                   /\ req'[c].pc = "findOne"
                   /\ Len(req'[c].body.name) \in 1..255
                   /\ Count(req'[c].body.email, "@") = 1
                   /\ Len(req'[c].body.password) >= 6
         /\ (req[c].path = "POST /signup" /\ req[c].pc = "findOne" /\ Moves(c)) =>
              /\ users' = users /\ store' = store
              /\ (Returns(c) /\ \E i \in 1..Len(users) : users[i].email = req[c].body.email) =>
                   /\ req'[c].pc = "done"
                   /\ req'[c].resp.status = 400
                   /\ req'[c].resp.message = "Email already exists"]_vars

(* a signup with a registered email was answered 'Email already exists'   *)
C10_Witness ==
    \E c \in Clients :
       /\ req[c].path = "POST /signup" /\ req[c].pc = "done"
       /\ req[c].resp.message = "Email already exists"
       /\ \E i \in 1..Len(users) : users[i].email = EmailA

(* C11: a promote or demote request that passed the gates and whose       *)
(* target email matches no record is not answered like a successful role  *)
(* change (the redirect to /admin), and leaves the users collection as it *)
(* was.                                                                   *)
C11_UnknownTargetFails ==
    [][\A c \in Clients :
         (req[c].pc = "updateOne" /\ Moves(c)
            /\ FindOne(users, req[c].body.email) = Null)
           => /\ users' = users
              /\ req'[c].resp # Redirect("/admin")]_vars

GatedPaths == {"GET /members"} \cup AdminPaths

(* the step of c's request that completes a successful register, or an    *)
(* authenticate whose password verifies against the record read           *)
Established(c) ==
    /\ Moves(c)
    /\ \/ req[c].pc = "session"
       \/ req[c].pc = "compare" /\ Verifies(c)

C13_SessionLifecycle ==
    [][\A c \in Clients :
         /\ (store[c] = Null /\ store'[c] # Null) => Established(c)
         /\ (store[c] # Null /\ store'[c] = Null) =>
              \/ req[c].pc = "destroy" /\ Moves(c)
              \/ expire(c)
         /\ (Moves(c) /\ ~Established(c) /\ req[c].pc # "destroy") =>
              store' = store]_vars

(* C14: a request to /members, /admin, /promote or /demote without        *)
(* session is answered with a redirect to / or /login and never with the  *)
(* 403 view; a request to /admin, /promote or /demote with a session      *)
(* whose role is not admin is answered with the 403 view and never with   *)
(* a redirect.                                                            *)
C14_DenyOutcomes ==
    [][\A c \in Clients :
         (Starts(c) /\ req'[c].path \in GatedPaths \cap Routes(variant)) =>
            /\ store[c] = Null =>
                 /\ req'[c].pc = "done"
                 /\ req'[c].resp.kind = "redirect"
                 /\ req'[c].resp.target \in {"/", "/login"}
                 /\ req'[c].resp.status # 403
            /\ (store[c] # Null /\ store[c].user_type # "admin"
                  /\ req'[c].path \in AdminPaths) =>
                 /\ req'[c].pc = "done"
                 /\ req'[c].resp.status = 403
                 /\ req'[c].resp.kind = "render" /\ req'[c].resp.target = "403"]_vars

(* a demote request without session was redirected to /login while a      *)
(* demote request of a session with role user got the 403 view            *)
C14_Witness ==
    \E c, k \in Clients :
       /\ req[c].path = "POST /demote" /\ req[c].resp.target = "/login"
       /\ store[c] = Null
       /\ req[k].path = "POST /demote" /\ req[k].resp.target = "403"
       /\ store[k] # Null /\ store[k].user_type = "user"

(* C15: in every step the users collection keeps every record with its    *)
(* name, email and password hash; the role of a record changes only in    *)
(* the updateOne step of a promote or demote request whose session holds  *)
(* role admin; a record that app.js inserts has role user.                *)
C15_RecordsKept ==
    [][/\ Len(users') >= Len(users)
       /\ \A i \in 1..Len(users) :
            /\ users'[i].name = users[i].name
            /\ users'[i].email = users[i].email
            /\ users'[i].password = users[i].password
            /\ users'[i].user_type # users[i].user_type =>
                 \E c \in Clients :
                    /\ req[c].pc = "updateOne" /\ Moves(c)
                    /\ req[c].path \in SetRolePaths
                    /\ store[c] # Null /\ store[c].user_type = "admin"
       /\ \A i \in (Len(users) + 1)..Len(users') :
            variant = "app" => users'[i].user_type = "user"]_vars

(* the record of a@x.co was promoted, its owner logged in as admin, and a  *)
(* completed demote has set the record back to role user                  *)
C15_Witness ==
    \E c, k \in Clients :
       /\ req[c].path = "POST /demote" /\ req[c].pc = "done"
       /\ req[c].resp.target = "/admin"
       /\ store[k] # Null /\ store[k].email = EmailA /\ store[k].user_type = "admin"
       /\ FindOne(users, EmailA) # Null /\ FindOne(users, EmailA).user_type = "user"

(* C16: when findOne or insertOne throws during POST /signup or POST      *)
(* /login, the request is answered with status 500 and the session store  *)
(* is left as it was.                                                     *)
C16_StoreFailure500 ==
    [][\A c \in Clients :
         (signupFails(c) \/ loginFails(c)) =>
            /\ req'[c].pc = "done"
            /\ req'[c].resp.status = 500
            /\ store' = store]_vars

HandlerPaths == {"GET /signup", "POST /signup", "GET /login", "POST /login",
                 "GET /logout"} \cup GatedPaths

(* C17: a request to signup, login, logout, members, admin, promote or    *)
(* demote whose handler has ended was answered once: the handler did not  *)
(* go on to a second response after the first, and left no request        *)
(* without response unless a store call threw.                            *)
C17_OneResponse ==
    \A c \in Clients :
       (req[c].pc = "done" /\ req[c].path \in HandlerPaths) =>
          /\ req[c].outcome # "ERR_HTTP_HEADERS_SENT"
          /\ req[c].outcome # StoreError => req[c].resp # NoResp

(* the record u is the document w up to its role *)
SameAccount(u, w) ==
    u.name = w.name /\ u.email = w.email /\ u.password = w.password

(* C18: every session in the store carries the name and email of a record *)
(* of the users collection; the document from which a handler builds a    *)
(* session is a record read from or inserted into the collection by that  *)
(* request, and the session takes its name, email and (in app.js) role    *)
(* from that document: the role the record had when the request read it.  *)
C18_SessionsReferToUsers ==
    /\ [](\A c \in Clients :
            /\ store[c] # Null =>
                 \E i \in 1..Len(users) :
                    users[i].email = store[c].email /\ users[i].name = store[c].name
            /\ req[c].pc \in {"compare", "session"} =>
                 /\ req[c].user # Null
                 /\ \E i \in 1..Len(users) : SameAccount(users[i], req[c].user))
    /\ [][\A c \in Clients :
            /\ (req[c].pc = "findOne" /\ req'[c].pc = "compare") =>
                 \E i \in 1..Len(users) : users[i] = req'[c].user
            /\ (req[c].pc = "insertOne" /\ req'[c].pc = "session") =>
                 users'[Len(users')] = req'[c].user
            /\ (store'[c] # store[c] /\ store'[c] # Null) =>
                 /\ req[c].pc \in {"compare", "session"}
                 /\ store'[c].name = req[c].user.name
                 /\ store'[c].email = req[c].user.email
                 /\ variant = "app" =>
                      store'[c].user_type = req[c].user.user_type]_vars

(* one client holds the session its signup established and the other      *)
(* client the session a login to the same account established             *)
C18_Witness ==
    \E c, k \in Clients :
       /\ req[c].path = "POST /signup" /\ req[c].resp.target = "/members"
       /\ store[c] # Null /\ store[c].email = EmailA
       /\ req[k].path = "POST /login" /\ req[k].resp.target = "/"
       /\ store[k] # Null /\ store[k].email = EmailA

====
